---------------------------- MODULE Spec2Model ----------------------------
(***************************************************************************)
(* Model of src/main.py: the cloud-function handler process_video, which   *)
(* submits a video to the annotation service, prints two reports, makes    *)
(* sure two BigQuery tables exist and appends the projected rows to them.  *)
(*                                                                         *)
(* Strings the code takes apart (object names, URIs, transcripts) are      *)
(* sequences of one-character strings; opaque strings (entity              *)
(* descriptions, exception names) are TLA+ strings.  A confidence is an    *)
(* integer percentage, a time offset an integer number of seconds.         *)
(* The annotation service and the BigQuery store are the environment: the  *)
(* outcome of each call to them is chosen nondeterministically among the   *)
(* outcomes the client libraries can produce.                              *)
(***************************************************************************)
EXTENDS Integers, Sequences, FiniteSets, TLC

VARIABLES
    pc,        \* pc[p]: the statement invocation p of process_video executes next
    event,     \* event[p]: the trigger event {bucket, name} of invocation p
    video,     \* video[p]: what the annotation service returns for the object
    request,   \* request[p]: the request built by analyze_video (NoRequest before)
    results,   \* results[p]: annotation_results held by process_video (<<>> before)
    rows,      \* rows[p]: rows_to_insert_labels / rows_to_insert_transcript
    out,       \* out[p]: the lines invocation p has printed, in order
    calls,     \* calls[p]: the store calls invocation p has issued, with results
    raised,    \* raised[p]: the exception that left process_video ("none" if none)
    tables,    \* the tables that exist in the dataset
    data       \* data[t]: the rows stored in table t, in append order

vars == <<pc, event, video, request, results, rows, out, calls, raised, tables, data>>

---------------------------------------------------------------------------
(* Bounds of the input sets.                                               *)

MaxLabels == 2      \* label annotations per video
MaxSegs == 2        \* segments per label annotation
MaxTrans == 2       \* speech transcriptions per video
MaxAlts == 2        \* alternatives per transcription
MaxNameLen == 3     \* characters of an enumerated object name

---------------------------------------------------------------------------
(* Module constants of main.py.                                            *)

OUTPUT_BUCKET ==
    <<"g","s",":","/","/","o","u","t","p","u","t","b","u","c","k","e","t",
      "-","c","l","o","u","d","9">>

TABLE_ID_LABELS == "annotation_labels"

TABLE_ID_TRANSCRIPT == "annotation_transcripts"

features ==
    <<"OBJECT_TRACKING", "LABEL_DETECTION", "SHOT_CHANGE_DETECTION",
      "SPEECH_TRANSCRIPTION", "LOGO_RECOGNITION", "EXPLICIT_CONTENT_DETECTION",
      "TEXT_DETECTION", "FACE_DETECTION", "PERSON_DETECTION">>

video_context ==
    [speech_transcription_config |->
        [language_code |-> "en-US", enable_automatic_punctuation |-> TRUE],
     person_detection_config |->
        [include_bounding_boxes |-> TRUE, include_attributes |-> FALSE,
         include_pose_landmarks |-> TRUE],
     face_detection_config |->
        [include_bounding_boxes |-> TRUE, include_attributes |-> TRUE]]

\* min_confidence: float = 0.8, as a percentage
min_confidence == 80

AllTables == {TABLE_ID_LABELS, TABLE_ID_TRANSCRIPT}

---------------------------------------------------------------------------
(* Python string and list operations used by the code.                     *)

\* str.split(sep) for a one-character separator: a left-to-right scan that
\* closes the current part at every separator.
RECURSIVE SplitScan(_, _, _, _)
SplitScan(s, sep, cur, parts) ==
    IF s = <<>> THEN Append(parts, cur)
    ELSE IF Head(s) = sep
         THEN SplitScan(Tail(s), sep, <<>>, Append(parts, cur))
         ELSE SplitScan(Tail(s), sep, Append(cur, Head(s)), parts)

Split(s, sep) == SplitScan(s, sep, <<>>, <<>>)

\* str.strip(): leading and trailing blanks removed.
RECURSIVE LStrip(_)
LStrip(s) == IF s # <<>> /\ Head(s) = " " THEN LStrip(Tail(s)) ELSE s

RECURSIVE RStrip(_)
RStrip(s) ==
    IF s # <<>> /\ s[Len(s)] = " " THEN RStrip(SubSeq(s, 1, Len(s) - 1)) ELSE s

Strip(s) == RStrip(LStrip(s))

\* ", ".join(parts)
RECURSIVE Join(_)
Join(parts) ==
    IF parts = <<>> THEN <<>>
    ELSE IF Len(parts) = 1 THEN Head(parts)
    ELSE Head(parts) \o <<",", " ">> \o Join(Tail(parts))

\* the concatenation of a sequence of sequences
RECURSIVE Concat(_)
Concat(ss) == IF ss = <<>> THEN <<>> ELSE Head(ss) \o Concat(Tail(ss))


---------------------------------------------------------------------------
(* The inputs: trigger events and annotation results.                      *)

gs == <<"g","s",":","/","/">>

json == <<".","j","s","o","n">>

clip_mp4 == <<"c","l","i","p",".","m","p","4">>

a_b_mp4 == <<"a",".","b",".","m","p","4">>

\* the sequences over S of length lo..hi
SeqsOf(S, lo, hi) == UNION {[1..k -> S] : k \in lo..hi}

NameChars == {"a", ".", "/"}

Buckets == {<<"b">>}

SampleEvents ==
    {[bucket |-> <<"b">>, name |-> clip_mp4], [bucket |-> <<"b">>, name |-> a_b_mp4]}

AllEvents ==
    SampleEvents \cup
    {[bucket |-> b, name |-> n] : b \in Buckets, n \in SeqsOf(NameChars, 0, MaxNameLen)}

\* vi.LabelSegment: confidence (percent) and the segment's offsets (seconds)
Seg50 == [confidence |-> 50, start_time_offset |-> 0, end_time_offset |-> 5]

Seg92 == [confidence |-> 92, start_time_offset |-> 5, end_time_offset |-> 9]

Segments == {Seg50, Seg92}

\* entity and category entities of a vi.LabelAnnotation
Entities ==
    {[entity |-> [description |-> <<"C","a","t">>],
      category_entities |-> << [description |-> <<"A","n","i","m","a","l">>] >>],
     [entity |-> [description |-> <<"S","k","y">>],
      category_entities |-> <<>>]}

\* vi.LabelAnnotation; the service reports at least one segment per label
LabelAnnotations ==
    {[entity |-> e.entity, category_entities |-> e.category_entities, segments |-> ss] :
        e \in Entities, ss \in SeqsOf(Segments, 1, MaxSegs)}

\* vi.SpeechRecognitionAlternative
Alternatives ==
    {[transcript |-> <<" ","h","i"," ">>, confidence |-> 80],
     [transcript |-> <<"n","o">>, confidence |-> 75]}

\* vi.SpeechTranscription; the service reports at least one alternative
Transcriptions == {[alternatives |-> as] : as \in SeqsOf(Alternatives, 1, MaxAlts)}

\* response.annotation_results: labels in element 0, speech in element 1
\* (Python's results[0] and results[1] are results[1] and results[2] here)
AnnotationResults(labels, transcriptions) ==
    << [segment_label_annotations |-> labels, speech_transcriptions |-> <<>>],
       [segment_label_annotations |-> <<>>, speech_transcriptions |-> transcriptions] >>

SampleVideo ==
    AnnotationResults(
        << [entity |-> [description |-> <<"S","k","y">>], category_entities |-> <<>>,
            segments |-> <<Seg50, Seg92>>],
           [entity |-> [description |-> <<"C","a","t">>],
            category_entities |-> << [description |-> <<"A","n","i","m","a","l">>] >>,
            segments |-> <<Seg92>>] >>,
        << [alternatives |-> << [transcript |-> <<" ","h","i"," ">>, confidence |-> 80],
                                [transcript |-> <<"n","o">>, confidence |-> 75] >>] >>)

EmptyVideo == AnnotationResults(<<>>, <<>>)

SampleVideos == {SampleVideo, EmptyVideo}

LabelVideos ==
    {AnnotationResults(ls, <<>>) : ls \in SeqsOf(LabelAnnotations, 0, MaxLabels)}

SpeechVideos ==
    {AnnotationResults(<<>>, ts) : ts \in SeqsOf(Transcriptions, 0, MaxTrans)}

---------------------------------------------------------------------------
(* analyze_video                                                           *)

InputUri(e) == gs \o e.bucket \o <<"/">> \o e.name

\* Mutant of FileStem: the stem ends at the last dot (rsplit(".", 1)[0]).
FileStemLastDot(name) ==
    LET parts == Split(name, ".")
    IN IF Len(parts) = 1 THEN name
       ELSE SubSeq(name, 1, Len(name) - Len(parts[Len(parts)]) - 1)

FileStem(name) == Split(name, ".")[1]

OutputUri(name) == OUTPUT_BUCKET \o <<"/">> \o FileStem(name) \o json

BuildRequest(e) ==
    [features |-> features,
     input_uri |-> InputUri(e),
     output_uri |-> OutputUri(e.name),
     video_context |-> video_context]

NoRequest == [features |-> <<>>, input_uri |-> <<>>, output_uri |-> <<>>,
              video_context |-> <<>>]

\* An entry of calls[p]: a call to a service, what it was about (the input
\* URI or the table) and how it ended.
Call(op, target, res) == [op |-> op, target |-> target, res |-> res]

\* the outcomes of a call to the annotation service
AnnotateOutcomes(faults) == IF faults THEN {"ok", "AnnotateError"} ELSE {"ok"}

\* lines 51-64: build the request, print, submit it
annotate_video(p, faults) ==
    /\ pc[p] = "analyze"
    /\ request' = [request EXCEPT ![p] = BuildRequest(event[p])]
    /\ out' = [out EXCEPT ![p] = out[p] \o
                 << [kind |-> "event", event |-> event[p]],
                    [kind |-> "processing", input_uri |-> InputUri(event[p])] >>]
    /\ \E o \in AnnotateOutcomes(faults) :
          /\ calls' = [calls EXCEPT ![p] =
                         Append(@, Call("annotate_video", InputUri(event[p]), o))]
          /\ IF o = "ok"
             THEN pc' = [pc EXCEPT ![p] = "wait"] /\ raised' = raised
             ELSE pc' = [pc EXCEPT ![p] = "failed"] /\ raised' = [raised EXCEPT ![p] = o]
    /\ UNCHANGED <<event, video, results, rows, tables, data>>

\* Mutant of operation_result: a failed operation is swallowed and the
\* invocation goes on with empty results.
operation_result_swallowed(p, faults) ==
    /\ pc[p] = "wait"
    /\ \E o \in AnnotateOutcomes(faults) :
          /\ calls' = [calls EXCEPT ![p] =
                         Append(@, Call("operation_result", InputUri(event[p]), o))]
          /\ results' = [results EXCEPT ![p] = IF o = "ok" THEN video[p] ELSE EmptyVideo]
          /\ pc' = [pc EXCEPT ![p] = "print_labels"]
    /\ UNCHANGED <<event, video, request, rows, out, raised, tables, data>>

\* lines 65-67: block on the long-running operation, return its results
operation_result(p, faults) ==
    /\ pc[p] = "wait"
    /\ \E o \in AnnotateOutcomes(faults) :
          /\ calls' = [calls EXCEPT ![p] =
                         Append(@, Call("operation_result", InputUri(event[p]), o))]
          /\ IF o = "ok"
             THEN /\ results' = [results EXCEPT ![p] = video[p]]
                  /\ pc' = [pc EXCEPT ![p] = "print_labels"]
                  /\ raised' = raised
             ELSE /\ results' = results
                  /\ pc' = [pc EXCEPT ![p] = "failed"]
                  /\ raised' = [raised EXCEPT ![p] = o]
    /\ UNCHANGED <<event, video, request, rows, out, tables, data>>

---------------------------------------------------------------------------
(* print_video_labels, print_video_speech                                  *)

\* Mutant of FirstSegmentConfidence: the key is the label's highest confidence.
MaxSegmentConfidence(label) ==
    CHOOSE c \in {label.segments[j].confidence : j \in DOMAIN label.segments} :
       \A j \in DOMAIN label.segments : label.segments[j].confidence <= c

\* key=lambda label: label.segments[0].confidence
FirstSegmentConfidence(label) == label.segments[1].confidence

\* sorted(..., reverse=True) is stable: an element goes behind every element
\* placed before it whose key is at least its own.
RECURSIVE InsertByKey(_, _)
InsertByKey(x, s) ==
    IF s = <<>> THEN <<x>>
    ELSE IF FirstSegmentConfidence(Head(s)) >= FirstSegmentConfidence(x)
         THEN <<Head(s)>> \o InsertByKey(x, Tail(s))
         ELSE <<x>> \o s

RECURSIVE SortInto(_, _)
SortInto(labels, acc) ==
    IF labels = <<>> THEN acc
    ELSE SortInto(Tail(labels), InsertByKey(Head(labels), acc))

sorted_by_first_segment_confidence(labels) == SortInto(labels, <<>>)

category_entities_to_str(category_entities) ==
    IF category_entities = <<>> THEN <<>>
    ELSE <<" ", "(">>
         \o Join([i \in 1..Len(category_entities) |-> category_entities[i].description])
         \o <<")">>

\* lines 82-87: the lines printed for one label, one per segment
LabelLines(label) ==
    [j \in 1..Len(label.segments) |->
        [kind |-> "label",
         confidence |-> label.segments[j].confidence,
         t1 |-> label.segments[j].start_time_offset,
         t2 |-> label.segments[j].end_time_offset,
         text |-> label.entity.description
                  \o category_entities_to_str(label.category_entities)]]

print_video_labels(p) ==
    /\ pc[p] = "print_labels"
    /\ LET labels ==
             sorted_by_first_segment_confidence(results[p][1].segment_label_annotations)
       IN out' = [out EXCEPT ![p] = out[p]
                    \o << [kind |-> "labels_header", n |-> Len(labels)] >>
                    \o Concat([i \in 1..Len(labels) |-> LabelLines(labels[i])])]
    /\ pc' = [pc EXCEPT ![p] = "print_speech"]
    /\ UNCHANGED <<event, video, request, results, rows, calls, raised, tables, data>>

keep_transcription(transcription) ==
    min_confidence <= transcription.alternatives[1].confidence

print_video_speech(p) ==
    /\ pc[p] = "print_speech"
    /\ LET transcriptions ==
             SelectSeq(results[p][2].speech_transcriptions, keep_transcription)
       IN out' = [out EXCEPT ![p] = out[p]
                    \o << [kind |-> "speech_header", n |-> Len(transcriptions)] >>
                    \o [i \in 1..Len(transcriptions) |->
                          [kind |-> "speech",
                           confidence |-> transcriptions[i].alternatives[1].confidence,
                           text |-> Strip(transcriptions[i].alternatives[1].transcript)]]]
    /\ pc' = [pc EXCEPT ![p] = "get_labels"]
    /\ UNCHANGED <<event, video, request, results, rows, calls, raised, tables, data>>

---------------------------------------------------------------------------
(* create_bigquery_tables                                                  *)

\* The two blocks of create_bigquery_tables, in program order.
Stages == {"labels", "transcript"}

\* Mutant of TableRef: the second block reuses table_ref_labels.
TableRefLabelsOnly(stage) == TABLE_ID_LABELS

\* table_ref_labels (line 122), table_ref_transcript (line 132)
TableRef(stage) == IF stage = "labels" THEN TABLE_ID_LABELS ELSE TABLE_ID_TRANSCRIPT

GetPc(stage) == IF stage = "labels" THEN "get_labels" ELSE "get_transcript"

CreatePc(stage) == IF stage = "labels" THEN "create_labels" ELSE "create_transcript"

\* Mutant of AfterStage: create_bigquery_tables returns after its first block.
AfterStageSkipsTranscript(stage) == "project"

\* the statement after a block: the second block, then store_results_in_bigquery
AfterStage(stage) == IF stage = "labels" THEN "get_transcript" ELSE "project"

\* google.cloud.exceptions.GoogleCloudError and the subclasses that occur;
\* Forbidden stands for every store error that is neither NotFound nor Conflict.
GoogleCloudErrors == {"NotFound", "Conflict", "Forbidden"}

\* client.get_table: the table's metadata, NotFound if it is absent, or a fault
GetTableOutcomes(t, faults) ==
    (IF t \in tables THEN {"found"} ELSE {"NotFound"})
    \cup (IF faults THEN {"Forbidden"} ELSE {})

\* client.create_table (exists_ok is left False): Conflict if the table exists
CreateTableOutcomes(t, faults) ==
    (IF t \in tables THEN {"Conflict"} ELSE {"created"})
    \cup (IF faults THEN {"Forbidden"} ELSE {})

\* Mutant of HandledByCreate: except Exception:
HandledAnyError(exc) == exc # "found"

\* except NotFound: (lines 126, 136)
HandledByCreate(exc) == exc = "NotFound"

\* lines 123-126 and 133-136: try get_table
get_table(p, stage, faults) ==
    /\ pc[p] = GetPc(stage)
    /\ \E o \in GetTableOutcomes(TableRef(stage), faults) :
          /\ calls' = [calls EXCEPT ![p] = Append(@, Call("get_table", TableRef(stage), o))]
          /\ IF o = "found"
             THEN /\ out' = [out EXCEPT ![p] =
                               Append(@, [kind |-> "table_exists", table |-> TableRef(stage)])]
                  /\ pc' = [pc EXCEPT ![p] = AfterStage(stage)]
                  /\ raised' = raised
             ELSE IF HandledByCreate(o)
             THEN /\ out' = out
                  /\ pc' = [pc EXCEPT ![p] = CreatePc(stage)]
                  /\ raised' = raised
             ELSE /\ out' = out
                  /\ pc' = [pc EXCEPT ![p] = "failed"]
                  /\ raised' = [raised EXCEPT ![p] = o]
    /\ UNCHANGED <<event, video, request, results, rows, tables, data>>

\* lines 127-129 and 137-139: the NotFound handler creates the table
create_table(p, stage, faults) ==
    /\ pc[p] = CreatePc(stage)
    /\ \E o \in CreateTableOutcomes(TableRef(stage), faults) :
          /\ calls' = [calls EXCEPT ![p] = Append(@, Call("create_table", TableRef(stage), o))]
          /\ IF o = "created"
             THEN /\ tables' = tables \cup {TableRef(stage)}
                  /\ out' = [out EXCEPT ![p] =
                               Append(@, [kind |-> "table_created", table |-> TableRef(stage)])]
                  /\ pc' = [pc EXCEPT ![p] = AfterStage(stage)]
                  /\ raised' = raised
             ELSE /\ tables' = tables
                  /\ out' = out
                  /\ pc' = [pc EXCEPT ![p] = "failed"]
                  /\ raised' = [raised EXCEPT ![p] = o]
    /\ UNCHANGED <<event, video, request, results, rows, data>>

---------------------------------------------------------------------------
(* store_results_in_bigquery                                               *)

\* video_uri.split('/')[-1]
FileName(video_uri) == LET url_parts == Split(video_uri, "/") IN url_parts[Len(url_parts)]

\* lines 153-164: the rows of one label annotation, one per segment
RowsOfLabel(file_name, video_uri, label_annotation) ==
    [j \in 1..Len(label_annotation.segments) |->
        [file_name |-> file_name,
         label |-> label_annotation.entity.description,
         confidence |-> label_annotation.segments[j].confidence,
         start_time |-> label_annotation.segments[j].start_time_offset,
         end_time |-> label_annotation.segments[j].end_time_offset,
         file_uri |-> video_uri]]

\* Mutant of LabelRows: only the first segment of each label yields a row.
LabelRowsFirstSegment(file_name, video_uri, results_labels) ==
    [i \in 1..Len(results_labels.segment_label_annotations) |->
        RowsOfLabel(file_name, video_uri, results_labels.segment_label_annotations[i])[1]]

\* lines 152-164
LabelRows(file_name, video_uri, results_labels) ==
    Concat([i \in 1..Len(results_labels.segment_label_annotations) |->
              RowsOfLabel(file_name, video_uri, results_labels.segment_label_annotations[i])])

\* lines 167-176
TranscriptRows(file_name, results_transcript) ==
    [k \in 1..Len(results_transcript.speech_transcriptions) |->
        LET first_alternative == results_transcript.speech_transcriptions[k].alternatives[1]
        IN [file_name |-> file_name,
            transcript |-> first_alternative.transcript,
            confidence |-> first_alternative.confidence]]

\* lines 141-176: the projection of the results into the two row lists
project(p) ==
    /\ pc[p] = "project"
    /\ LET video_uri == InputUri(event[p])
           file_name == FileName(video_uri)
       IN rows' = [rows EXCEPT ![p] =
                     [labels |-> LabelRows(file_name, video_uri, results[p][1]),
                      transcript |-> TranscriptRows(file_name, results[p][2])]]
    /\ pc' = [pc EXCEPT ![p] = "insert_labels"]
    /\ UNCHANGED <<event, video, request, results, out, calls, raised, tables, data>>

\* client.insert_rows_json: [] when every row is stored; a list of row errors,
\* and then no row of the request is stored (skip_invalid_rows is left False);
\* or a GoogleCloudError (NotFound when the table is absent).
InsertOutcomes(t, json_rows, faults) ==
    IF t \notin tables THEN {"NotFound"}
    ELSE {"ok"}
         \cup (IF faults /\ json_rows # <<>> THEN {"row_errors"} ELSE {})
         \cup (IF faults THEN {"Forbidden"} ELSE {})

\* Mutant of CaughtByStoreHandler: except NotFound as e:
CaughtOnlyNotFound(exc) == exc = "NotFound"

\* except GoogleCloudError as e: (line 194)
CaughtByStoreHandler(exc) == exc \in GoogleCloudErrors

\* The statement after the labels insert returned (line 187).
AfterLabelsInsert == "insert_transcript"

\* One insert_rows_json call of the try block with what follows it: the
\* success or row-error print and the next statement, or the handler of
\* line 194, which prints and lets store_results_in_bigquery return.
Insert(p, t, json_rows, faults, next) ==
    \E o \in InsertOutcomes(t, json_rows, faults) :
       /\ calls' = [calls EXCEPT ![p] = Append(@, Call("insert_rows_json", t, o))]
       /\ IF o = "ok"
          THEN /\ data' = [data EXCEPT ![t] = @ \o json_rows]
               /\ out' = [out EXCEPT ![p] = Append(@, [kind |-> "rows_added", table |-> t])]
               /\ pc' = [pc EXCEPT ![p] = next]
               /\ raised' = raised
          ELSE IF o = "row_errors"
          THEN /\ data' = data
               /\ out' = [out EXCEPT ![p] = Append(@, [kind |-> "row_errors", table |-> t])]
               /\ pc' = [pc EXCEPT ![p] = next]
               /\ raised' = raised
          ELSE IF CaughtByStoreHandler(o)
          THEN /\ data' = data
               /\ out' = [out EXCEPT ![p] = Append(@, [kind |-> "insert_error", error |-> o])]
               /\ pc' = [pc EXCEPT ![p] = "done"]
               /\ raised' = raised
          ELSE /\ data' = data
               /\ out' = out
               /\ pc' = [pc EXCEPT ![p] = "failed"]
               /\ raised' = [raised EXCEPT ![p] = o]

\* lines 179-185
insert_labels(p, faults) ==
    /\ pc[p] = "insert_labels"
    /\ Insert(p, TABLE_ID_LABELS, rows[p].labels, faults, AfterLabelsInsert)
    /\ UNCHANGED <<event, video, request, results, rows, tables>>

\* lines 187-193
insert_transcript(p, faults) ==
    /\ pc[p] = "insert_transcript"
    /\ Insert(p, TABLE_ID_TRANSCRIPT, rows[p].transcript, faults, "done")
    /\ UNCHANGED <<event, video, request, results, rows, tables>>

---------------------------------------------------------------------------
(* process_video and the specifications                                    *)

Invocations == {"inv1", "inv2"}

NoRows == [labels |-> <<>>, transcript |-> <<>>]

\* The state when the events in `evs` (one per invocation) have arrived.
InitWith(live, evs, vids, tbls) ==
    /\ pc = [p \in live |-> "analyze"]
    /\ event \in [live -> evs]
    /\ video \in [live -> vids]
    /\ request = [p \in live |-> NoRequest]
    /\ results = [p \in live |-> <<>>]
    /\ rows = [p \in live |-> NoRows]
    /\ out = [p \in live |-> <<>>]
    /\ calls = [p \in live |-> <<>>]
    /\ raised = [p \in live |-> "none"]
    /\ tables \in tbls
    /\ data = [t \in AllTables |-> <<>>]

Terminated(p) == pc[p] \in {"done", "failed"}

\* The invocations the host lets run: all of them, or, when the events are
\* handled one after the other, inv2 only once inv1 has ended.
Ready(sequential) ==
    {p \in DOMAIN pc : (sequential /\ p = "inv2") => Terminated("inv1")}

\* lines 198-204: a ready invocation executes its next statement
process_video(faults, sequential) ==
    \/ \E p \in Ready(sequential) : annotate_video(p, faults)
    \/ \E p \in Ready(sequential) : operation_result(p, faults)
    \/ \E p \in Ready(sequential) : print_video_labels(p)
    \/ \E p \in Ready(sequential) : print_video_speech(p)
    \/ \E p \in Ready(sequential) : \E stage \in Stages : get_table(p, stage, faults)
    \/ \E p \in Ready(sequential) : \E stage \in Stages : create_table(p, stage, faults)
    \/ \E p \in Ready(sequential) : project(p)
    \/ \E p \in Ready(sequential) : insert_labels(p, faults)
    \/ \E p \in Ready(sequential) : insert_transcript(p, faults)

\* Two events arrive; the invocations run concurrently and every call to the
\* annotation service or the store may fail.
Init == InitWith(Invocations, SampleEvents, SampleVideos, SUBSET AllTables)

Next == process_video(TRUE, FALSE)

Spec == Init /\ [][Next]_vars

\* The same two invocations one after the other: inv2 starts when inv1 has ended.
SeqNext == process_video(TRUE, TRUE)

SpecSequential == Init /\ [][SeqNext]_vars

\* One invocation on a fresh dataset with services that do not fail, over
\* the enumerated events and annotation results (one input varied at a time).
InitNominal ==
    \/ InitWith({"inv1"}, AllEvents, {SampleVideo}, {{}})
    \/ InitWith({"inv1"}, {[bucket |-> <<"b">>, name |-> clip_mp4]},
                LabelVideos \cup SpeechVideos, {{}})

NominalNext == process_video(FALSE, FALSE)

SpecNominal == InitNominal /\ [][NominalNext]_vars

---------------------------------------------------------------------------
(* Vocabulary of the properties.                                           *)

\* the positions in calls[p] of the calls of `op` about `target`
CallsOf(p, op, target) ==
    {i \in DOMAIN calls[p] : calls[p][i].op = op /\ calls[p][i].target = target}

\* the positions in calls[p] of the store calls
StoreCallsOf(p) ==
    {i \in DOMAIN calls[p] :
        calls[p][i].op \in {"get_table", "create_table", "insert_rows_json"}}

\* the positions in out[p] of the lines of one kind
LinesOf(p, kind) == {i \in DOMAIN out[p] : out[p][i].kind = kind}

\* invocation p issued `op` about `target` and it ended with a result in `rs`
Ended(p, op, target, rs) == \E i \in CallsOf(p, op, target) : calls[p][i].res \in rs

\* r occurs in d as a block of consecutive rows
IsBlockOf(r, d) ==
    \E k \in 0..(Len(d) - Len(r)) : SubSeq(d, k + 1, k + Len(r)) = r

InsertFailures == GoogleCloudErrors \cup {"row_errors"}

PastProvisioning(p) == pc[p] \in {"project", "insert_labels", "insert_transcript", "done"}

---------------------------------------------------------------------------
\* C1: in store_results_in_bigquery the two appends are independent: when an
\* invocation has ended, a failed append to one table (row errors or a
\* store-level error) has not kept the append to the other table from being
\* issued, and the rows an append stored in the other table are still there.
C1_AppendsIndependent ==
    \A p \in DOMAIN pc :
       (Terminated(p) /\ CallsOf(p, "insert_rows_json", TABLE_ID_LABELS) # {}) =>
          /\ Ended(p, "insert_rows_json", TABLE_ID_LABELS, InsertFailures)
                => CallsOf(p, "insert_rows_json", TABLE_ID_TRANSCRIPT) # {}
          /\ (/\ Ended(p, "insert_rows_json", TABLE_ID_TRANSCRIPT, InsertFailures)
              /\ Ended(p, "insert_rows_json", TABLE_ID_LABELS, {"ok"}))
                => IsBlockOf(rows[p].labels, data[TABLE_ID_LABELS])

---------------------------------------------------------------------------
\* C2: when the annotation call fails (on submission or while waiting for
\* the operation), process_video ends with that failure propagated, and the
\* invocation has printed no label or speech report and issued no store call
\* (no table fetched or created, no row appended).
C2_AnnotationFailureIsFatal ==
    \A p \in DOMAIN pc :
       \A i \in DOMAIN calls[p] :
          (calls[p][i].op \in {"annotate_video", "operation_result"}
             /\ calls[p][i].res # "ok") =>
             /\ pc[p] = "failed"
             /\ raised[p] = calls[p][i].res
             /\ i = Len(calls[p])
             /\ StoreCallsOf(p) = {}
             /\ \A j \in DOMAIN out[p] : out[p][j].kind \in {"event", "processing"}
             /\ rows[p] = NoRows

C2_Witness ==
    \E p \in DOMAIN pc :
       /\ raised[p] = "AnnotateError"
       /\ Ended(p, "operation_result", InputUri(event[p]), {"AnnotateError"})
       /\ \E q \in DOMAIN pc : q # p /\ pc[q] = "done"

---------------------------------------------------------------------------
\* C3: a store-level error (a GoogleCloudError) raised by either append is
\* caught and logged: process_video returns normally, whichever append
\* failed, also when no row was stored in any table.
C3_StoreErrorIsSwallowed ==
    \A p \in DOMAIN pc :
       \A t \in AllTables :
          Ended(p, "insert_rows_json", t, GoogleCloudErrors) =>
             /\ pc[p] = "done"
             /\ raised[p] = "none"
             /\ out[p][Len(out[p])].kind = "insert_error"

C3_Witness ==
    /\ \A t \in AllTables : data[t] = <<>>
    /\ \E p, q \in DOMAIN pc :
          /\ pc[p] = "done" /\ pc[q] = "done"
          /\ Ended(p, "insert_rows_json", TABLE_ID_LABELS, GoogleCloudErrors)
          /\ Ended(q, "insert_rows_json", TABLE_ID_TRANSCRIPT, GoogleCloudErrors)

---------------------------------------------------------------------------
\* C4: for each table, create_bigquery_tables issues a create call exactly
\* when its fetch of that table ended NotFound; a successful fetch issues
\* no create, and any other fetch error issues no create, leaves
\* process_video as a fatal error and is followed by no row append.
C4_CreateOnlyOnNotFound ==
    \A p \in DOMAIN pc :
       \A i \in DOMAIN calls[p] :
          LET c == calls[p][i] IN
          /\ c.op = "create_table" =>
                /\ i > 1
                /\ calls[p][i - 1] = Call("get_table", c.target, "NotFound")
          /\ (c.op = "get_table" /\ c.res = "NotFound") =>
                IF i = Len(calls[p])
                THEN pc[p] \in {"create_labels", "create_transcript"}
                ELSE calls[p][i + 1].op = "create_table"
                     /\ calls[p][i + 1].target = c.target
          /\ (c.op = "get_table" /\ c.res = "found") =>
                (i < Len(calls[p]) => calls[p][i + 1].op # "create_table")
          /\ (c.op = "get_table" /\ c.res \notin {"found", "NotFound"}) =>
                /\ i = Len(calls[p])
                /\ pc[p] = "failed"
                /\ raised[p] = c.res
                /\ \A t \in AllTables : CallsOf(p, "insert_rows_json", t) = {}

C4_Witness ==
    \E p, q \in DOMAIN pc :
       /\ Ended(p, "get_table", TABLE_ID_LABELS, {"found"})
       /\ Ended(p, "get_table", TABLE_ID_TRANSCRIPT, {"NotFound"})
       /\ Ended(p, "create_table", TABLE_ID_TRANSCRIPT, {"created"})
       /\ Ended(q, "get_table", TABLE_ID_TRANSCRIPT, {"Forbidden"})
       /\ pc[p] = "done" /\ pc[q] = "failed"

---------------------------------------------------------------------------
FaultFree(p) ==
    \A i \in DOMAIN calls[p] : calls[p][i].res \notin {"AnnotateError", "Forbidden"}

\* C5: the table-creation race is benign: when two invocations both fetch a
\* table and both find it absent, neither ends with a fatal error because of
\* the race (a Conflict on create), and an invocation that met no other
\* fault goes on to its appends.
C5_CreationRaceBenign ==
    \A p, q \in DOMAIN pc :
       \A t \in AllTables :
          (p # q /\ Ended(p, "get_table", t, {"NotFound"})
                 /\ Ended(q, "get_table", t, {"NotFound"})) =>
             /\ raised[p] # "Conflict"
             /\ (Terminated(p) /\ FaultFree(p)) =>
                   CallsOf(p, "insert_rows_json", TABLE_ID_LABELS) # {}

---------------------------------------------------------------------------
\* C6: schema provisioning is idempotent: when create_bigquery_tables has
\* run to completion twice in sequence (inv1, then inv2) and the first run
\* found a table absent, that table was created exactly once, by the first
\* run; the second run found it, printed "already exists" and issued no
\* create; and both tables exist after either run (none altered or dropped).
C6_ProvisioningIdempotent ==
    /\ \A p \in DOMAIN pc : PastProvisioning(p) => tables = AllTables
    /\ (PastProvisioning("inv1") /\ PastProvisioning("inv2")) =>
          \A t \in AllTables :
             Ended("inv1", "get_table", t, {"NotFound"}) =>
                /\ Cardinality(CallsOf("inv1", "create_table", t)) = 1
                /\ CallsOf("inv2", "create_table", t) = {}
                /\ Cardinality(CallsOf("inv2", "get_table", t)) = 1
                /\ Ended("inv2", "get_table", t, {"found"})
                /\ \E i \in LinesOf("inv2", "table_exists") : out["inv2"][i].table = t
                /\ \A i \in LinesOf("inv2", "table_created") : out["inv2"][i].table # t

C6_Witness ==
    /\ PastProvisioning("inv1") /\ PastProvisioning("inv2")
    /\ \A t \in AllTables : Ended("inv1", "create_table", t, {"created"})
    /\ \A t \in AllTables : Ended("inv2", "get_table", t, {"found"})

---------------------------------------------------------------------------
TableReady(p, t, i) ==
    \E j \in 1..(i - 1) :
       \/ calls[p][j] = Call("get_table", t, "found")
       \/ calls[p][j] = Call("create_table", t, "created")

\* C7: every invocation runs analyze -> print labels -> print speech ->
\* create_bigquery_tables -> project and append, in this order: a report is
\* printed only after the annotation operation completed, the speech report
\* after the label report, store calls only after both reports, the
\* transcript table is looked at only after the labels table was found or
\* created, no append is issued before both tables were found or created in
\* the same invocation, and a call that raised (other than a fetch ending
\* NotFound, which the code handles) is the invocation's last.
C7_StepsInOrder ==
    \A p \in DOMAIN pc :
       /\ LinesOf(p, "labels_header") # {} =>
             /\ Ended(p, "operation_result", InputUri(event[p]), {"ok"})
             /\ results[p] = video[p]
       /\ \A i \in LinesOf(p, "speech_header") :
             \E j \in LinesOf(p, "labels_header") : j < i
       /\ \A i \in LinesOf(p, "label") :
             \A j \in LinesOf(p, "speech_header") : i < j
       /\ StoreCallsOf(p) # {} =>
             /\ Cardinality(LinesOf(p, "labels_header")) = 1
             /\ Cardinality(LinesOf(p, "speech_header")) = 1
       /\ \A i \in CallsOf(p, "get_table", TABLE_ID_TRANSCRIPT) :
             TableReady(p, TABLE_ID_LABELS, i)
       /\ rows[p] # NoRows => \A t \in AllTables : TableReady(p, t, Len(calls[p]) + 1)
       /\ \A i \in StoreCallsOf(p) :
             /\ calls[p][i].op = "insert_rows_json" =>
                   \A t \in AllTables : TableReady(p, t, i)
             /\ calls[p][i] = Call("insert_rows_json", TABLE_ID_TRANSCRIPT, calls[p][i].res) =>
                   \E j \in CallsOf(p, "insert_rows_json", TABLE_ID_LABELS) : j < i
       /\ \A i \in DOMAIN calls[p] :
             (/\ calls[p][i].res \in GoogleCloudErrors \cup {"AnnotateError"}
              /\ ~(calls[p][i].op = "get_table" /\ calls[p][i].res = "NotFound")) =>
                i = Len(calls[p]) /\ Terminated(p)

C7_Witness ==
    \E p \in DOMAIN pc :
       /\ pc[p] = "done"
       /\ Len(rows[p].labels) > 0
       /\ Ended(p, "create_table", TABLE_ID_LABELS, {"created"})
       /\ Ended(p, "insert_rows_json", TABLE_ID_TRANSCRIPT, {"ok"})

---------------------------------------------------------------------------
\* the number of segments of the labels before the i-th
RECURSIVE SegmentsBefore(_, _)
SegmentsBefore(labels, i) ==
    IF i = 1 THEN 0
    ELSE SegmentsBefore(labels, i - 1) + Len(labels[i - 1].segments)

Projected(p) == pc[p] \in {"insert_labels", "insert_transcript", "done"}

\* C8: the projection yields one label row per (label, segment) pair of
\* results[0], in input order, so sum of len(segments) rows, each with the
\* label's description and that segment's confidence and offsets; and one
\* transcript row per transcription of results[1], in input order, holding
\* the transcript and confidence of its first alternative.
C8_ProjectionRows ==
    \A p \in DOMAIN pc :
       Projected(p) =>
          LET labels == results[p][1].segment_label_annotations
              transcriptions == results[p][2].speech_transcriptions
          IN /\ Len(rows[p].labels) = SegmentsBefore(labels, Len(labels) + 1)
             /\ \A i \in DOMAIN labels :
                   \A j \in DOMAIN labels[i].segments :
                      LET row == rows[p].labels[SegmentsBefore(labels, i) + j]
                          segment == labels[i].segments[j]
                      IN /\ row.label = labels[i].entity.description
                         /\ row.confidence = segment.confidence
                         /\ row.start_time = segment.start_time_offset
                         /\ row.end_time = segment.end_time_offset
             /\ Len(rows[p].transcript) = Len(transcriptions)
             /\ \A k \in DOMAIN transcriptions :
                   /\ rows[p].transcript[k].transcript
                         = transcriptions[k].alternatives[1].transcript
                   /\ rows[p].transcript[k].confidence
                         = transcriptions[k].alternatives[1].confidence

C8_Witness ==
    \E p \in DOMAIN pc :
       /\ Projected(p)
       /\ Len(results[p][1].segment_label_annotations) = 2
       /\ Len(rows[p].labels) = 3
       /\ Len(rows[p].transcript) = 1
       /\ Len(results[p][2].speech_transcriptions[1].alternatives) = 2

---------------------------------------------------------------------------
LabelLinesPrinted(p) == SelectSeq(out[p], LAMBDA line : line.kind = "label")

IsPrefixOf(s, t) == Len(s) <= Len(t) /\ SubSeq(t, 1, Len(s)) = s

\* C9: print_video_labels prints the labels in an order that is a
\* permutation of the input labels, by descending confidence of each label's
\* first segment, labels of equal first-segment confidence in input order,
\* and for each label one line per segment in the segments' order.
C9_LabelsRankedByFirstSegment ==
    \A p \in DOMAIN pc :
       LinesOf(p, "labels_header") # {} =>
          LET labels == results[p][1].segment_label_annotations
              n == Len(labels)
              printed == LabelLinesPrinted(p)
          IN \E perm \in Permutations(1..n) :
                LET ranked == [i \in 1..n |-> labels[perm[i]]] IN
                /\ \A i, j \in 1..n :
                      i < j =>
                         /\ ranked[i].segments[1].confidence >= ranked[j].segments[1].confidence
                         /\ ranked[i].segments[1].confidence = ranked[j].segments[1].confidence
                               => perm[i] < perm[j]
                /\ Len(printed) = SegmentsBefore(ranked, n + 1)
                /\ \A i \in 1..n :
                      \A j \in DOMAIN ranked[i].segments :
                         LET line == printed[SegmentsBefore(ranked, i) + j]
                             segment == ranked[i].segments[j]
                         IN /\ line.confidence = segment.confidence
                            /\ line.t1 = segment.start_time_offset
                            /\ line.t2 = segment.end_time_offset
                            /\ IsPrefixOf(ranked[i].entity.description, line.text)

C9_Witness ==
    \E p \in DOMAIN pc :
       LET labels == results[p][1].segment_label_annotations IN
       /\ LinesOf(p, "labels_header") # {}
       /\ Len(labels) = 2
       /\ labels[1].segments[1].confidence < labels[2].segments[1].confidence
       /\ Len(labels[1].segments) = 2
       /\ labels[1].segments[2].confidence = labels[2].segments[1].confidence
       /\ labels[1].entity # labels[2].entity
       /\ IsPrefixOf(labels[2].entity.description, LabelLinesPrinted(p)[1].text)

---------------------------------------------------------------------------
HasDot(name) == \E k \in DOMAIN name : name[k] = "."

FirstDot(name) ==
    CHOOSE k \in DOMAIN name : name[k] = "." /\ \A j \in 1..(k - 1) : name[j] # "."

\* C10: for an event whose name contains a dot, analyze_video builds
\* input_uri = gs://{bucket}/{name} and output_uri = {OUTPUT_BUCKET}/{stem}.json
\* with stem the part of name strictly before its first dot (a.b.mp4 gives
\* stem a; bucket b and name clip.mp4 give gs://b/clip.mp4 and
\* gs://outputbucket-cloud9/clip.json); the features are the fixed list.
C10_RequestUris ==
    \A p \in DOMAIN pc :
       (pc[p] # "analyze" /\ HasDot(event[p].name)) =>
          LET name == event[p].name
              stem == SubSeq(name, 1, FirstDot(name) - 1)
          IN /\ request[p].input_uri
                   = <<"g","s",":","/","/">> \o event[p].bucket \o <<"/">> \o name
             /\ request[p].output_uri
                   = OUTPUT_BUCKET \o <<"/">> \o stem \o <<".","j","s","o","n">>
             /\ request[p].features = features
             /\ name = a_b_mp4 =>
                   request[p].output_uri
                      = <<"g","s",":","/","/","o","u","t","p","u","t","b","u","c","k","e","t",
                          "-","c","l","o","u","d","9","/","a",".","j","s","o","n">>
             /\ (name = clip_mp4 /\ event[p].bucket = <<"b">>) =>
                   /\ request[p].input_uri
                         = <<"g","s",":","/","/","b","/","c","l","i","p",".","m","p","4">>
                   /\ request[p].output_uri
                         = <<"g","s",":","/","/","o","u","t","p","u","t","b","u","c","k","e","t",
                             "-","c","l","o","u","d","9","/","c","l","i","p",".","j","s","o","n">>

C10_Witness ==
    \E p \in DOMAIN pc :
       /\ pc[p] = "done"
       /\ event[p].name = a_b_mp4
       /\ request[p].output_uri = OUTPUT_BUCKET \o <<"/", "a">> \o json

=============================================================================
